---- MODULE Spec2Model ----
(***************************************************************************)
(* Beam search of the chainer transformer E2E model:                       *)
(* E2E.recognize_beam of espnet/nets/chainer_backend/e2e_asr_transformer.py *)
(*                                                                         *)
(* Scores are kept in halves (a stored 2 stands for the log-probability    *)
(* 1.0) so that ctc_weight in {0, 1/2, 1} keeps every combined score an    *)
(* integer.  Ratios are kept in tenths (maxlenratio 5 stands for 0.5).     *)
(***************************************************************************)
EXTENDS Integers, Sequences, FiniteSets, TLC

\* ------------------------------------------------------------------ bounds
MaxT == 4          \* longest encoder output h.shape[0]
MaxBeam == 2       \* largest recog_args.beam_size
MaxOdim == 3       \* largest output dimension (vocabulary size)
MaxSeed == 2       \* decoders / language models / posteriors are drawn from 0..MaxSeed
MaxDepth == 3      \* the recursion depth counter saturates here
MaxKeys == 4       \* most utterances in a shape file / a sound scp
MaxCalls == 3      \* most __getitem__ calls followed on one adapter

\* ------------------------------------------------------- program constants
CTC_SCORING_RATIO_x2 == 3   \* CTC_SCORING_RATIO = 1.5 (line 26; imported at line 455), doubled

VARIABLES
    h_len,          \* h.shape[0], the encoder output length T
    odim,           \* self.odim; sos = eos = odim - 1
    seed,           \* which deterministic decoder / LM / CTC posterior is plugged in
    lpz,            \* TRUE iff a CTC posterior matrix is passed (lpz is not None)
    rnnlm,          \* TRUE iff a language model is passed
    att_top,        \* log-probability the decoder gives the token it prefers
    caller_args,    \* the Namespace the caller passed to recognize()
    first_nbest,    \* what an earlier call made by the same caller returned
    recog_args,     \* the Namespace the current call works on
    maxlen, minlen, ctc_beam,
    i,              \* step index of the for loop
    p,              \* position of the inner loop "for hyp in hyps" (1-based)
    hyps, hyps_best_kept, ended_hyps, remained_hyps, nbest_hyps,
    ctc_ids,        \* local_best_ids as last passed to ctc_prefix_score
    exit,           \* why the step loop of the current run was left
    depth,          \* number of recursive calls made so far (saturating)
    idx, probs,     \* Decoder.inference: the loop index and the stop probabilities (tenths)
    threshold, minlenratio, maxlenratio,   \* arguments of Decoder.inference (tenths)
    utt2shape,      \* BatchSampler: length of each utterance, in file order
    batch_size, shuffle,
    batch_list,     \* self.batch_list
    yielded,        \* what __iter__ has yielded so far
    loader,         \* AdapterForSoundScpReader: sampling rate of each file of the scp
    rate,           \* self.rate: <<>> for None, <<r>> once set
    calls,          \* the __getitem__ calls made so far and how each ended
    pc

vars == <<h_len, odim, seed, lpz, rnnlm, att_top, caller_args, first_nbest, recog_args, maxlen, minlen, ctc_beam,
          i, p, hyps, hyps_best_kept, ended_hyps, remained_hyps, nbest_hyps,
          ctc_ids, exit, depth, idx, probs, threshold, minlenratio, maxlenratio,
          utt2shape, batch_size, shuffle, batch_list, yielded, loader, rate,
          calls, pc>>

\* The state of Decoder.inference, of a BatchSampler and of an
\* AdapterForSoundScpReader
tts == <<idx, probs, threshold, minlenratio, maxlenratio>>
sampler == <<utt2shape, batch_size, shuffle, batch_list, yielded>>
adapter == <<loader, rate, calls>>

\* What no call of recognize_beam changes: the input, the models and what the
\* caller holds
config == <<h_len, odim, seed, lpz, rnnlm, att_top, caller_args, first_nbest,
            tts, sampler, adapter>>

\* Objects that are not part of the run under study hold these values
TtsIdle ==
    /\ idx = 0 /\ probs = <<>>
    /\ threshold = 5 /\ minlenratio = 0 /\ maxlenratio = 100
SamplerIdle ==
    /\ utt2shape = <<>> /\ batch_size = 1 /\ shuffle = FALSE
    /\ batch_list = <<>> /\ yielded = <<>>
AdapterIdle == loader = <<>> /\ rate = <<>> /\ calls = <<>>

\* ------------------------------------------------------------ small helpers
Max2(a, b) == IF a >= b THEN a ELSE b
Min2(a, b) == IF a <= b THEN a ELSE b
Last(s) == s[Len(s)]

sos == odim - 1
eos == odim - 1
Tokens == 0 .. (odim - 1)

RECURSIVE SumSeq(_)
SumSeq(s) == IF s = <<>> THEN 0 ELSE s[1] + SumSeq(Tail(s))


\* Items 1..n of s (a Python slice s[:n])
Take(s, n) == SubSeq(s, 1, Min2(n, Len(s)))

\* xp.argsort(f)[::-1] over the index set D: ascending stable argsort, reversed,
\* so descending by value and, among equal values, the higher index first
RECURSIVE ArgsortDesc(_, _)
ArgsortDesc(f, D) ==
    IF D = {} THEN <<>>
    ELSE LET m == CHOOSE x \in D :
                    \A y \in D : f[x] > f[y] \/ (f[x] = f[y] /\ x >= y)
         IN <<m>> \o ArgsortDesc(f, D \ {m})

\* mutant: sorted by ascending score
RECURSIVE SortedByScoreAscending(_)
SortedByScoreAscending(s) ==
    IF s = <<>> THEN <<>>
    ELSE LET k == CHOOSE a \in 1 .. Len(s) :
                    \A b \in 1 .. Len(s) :
                        s[a].score < s[b].score \/ (s[a].score = s[b].score /\ a <= b)
         IN <<s[k]>> \o SortedByScoreAscending(SubSeq(s, 1, k - 1)
                                                 \o SubSeq(s, k + 1, Len(s)))

\* sorted(s, key=score, reverse=True): stable, equal scores keep their order
RECURSIVE SortedByScore(_)
SortedByScore(s) ==
    IF s = <<>> THEN <<>>
    ELSE LET k == CHOOSE a \in 1 .. Len(s) :
                    \A b \in 1 .. Len(s) :
                        s[a].score > s[b].score \/ (s[a].score = s[b].score /\ a <= b)
         IN <<s[k]>> \o SortedByScore(SubSeq(s, 1, k - 1) \o SubSeq(s, k + 1, Len(s)))

\* --------------------------------------------------------- length limits
\* mutant: the floor of 1 forgotten
MaxLenOfNoFloor(r, T) == IF r = 0 THEN T ELSE (r * T) \div 10

\* maxlen: lines 435-438.  int(r/10 * T) = (r * T) \div 10 for the floats r/10
\* and T < 25.
MaxLenOf(r, T) == IF r = 0 THEN T ELSE Max2(1, (r * T) \div 10)

\* mutant: int() applied to the ratio before the multiplication
MinLenOfIntFirst(m, T) == (m.tenths \div 10) * T

\* minlen: line 439.  minlenratio is [tenths, ulp]: the float nearest to
\* tenths/10 when ulp = 0, and a float slightly below (ulp = -1) or above
\* (ulp = 1) it after repeated subtraction of 0.1.  int() truncates, so a value
\* slightly below k/10 loses one when k*T/10 is a positive integer (T < 25).
MinLenOf(m, T) ==
    IF m.ulp = -1 /\ (m.tenths * T) % 10 = 0 /\ m.tenths * T > 0
    THEN (m.tenths * T) \div 10 - 1
    ELSE (m.tenths * T) \div 10

\* mutant: the ratio is reduced by 0.2
RelaxMinLenRatioTwice(m) == [tenths |-> Max2(0, m.tenths - 2), ulp |-> 0]

\* max(0.0, minlenratio - 0.1) in IEEE doubles: line 572
RelaxMinLenRatio(m) ==
    IF m.ulp = 1
    THEN IF m.tenths >= 1 THEN [tenths |-> m.tenths - 1, ulp |-> 1]
                          ELSE [tenths |-> 0, ulp |-> 0]
    ELSE IF m.ulp = -1
    THEN IF m.tenths >= 2 THEN [tenths |-> m.tenths - 1, ulp |-> -1]
                          ELSE [tenths |-> 0, ulp |-> 0]
    ELSE IF m.tenths = 0 THEN [tenths |-> 0, ulp |-> 0]
    ELSE IF m.tenths \in {4, 8} THEN [tenths |-> m.tenths - 1, ulp |-> 1]
    ELSE IF m.tenths = 3 THEN [tenths |-> 2, ulp |-> -1]
    ELSE [tenths |-> m.tenths - 1, ulp |-> 0]

\* mutant: the pre-pruning width is used for every ctc_weight
CtcBeamOfRatioOnly(beam, ctc_weight, vocab) ==
    Min2(vocab, (beam * CTC_SCORING_RATIO_x2) \div 2)

\* ctc_beam: lines 453-458
CtcBeamOf(beam, ctc_weight, vocab) ==
    IF ctc_weight # 2
    THEN Min2(vocab, (beam * CTC_SCORING_RATIO_x2) \div 2)
    ELSE vocab

\* ------------------------------------------------------- collaborators
\* The attention decoder, the language model and the CTC prefix scorer are
\* deterministic functions of their arguments; `seed` selects one of each.

\* self.decoder + log_softmax: the token the decoder prefers after yseq gets
\* att_top (-1.0, or 0.0 when the distribution is sharply peaked), the next
\* (cyclically) 1.0 less, ...
AttBest(yseq) == (seed * Len(yseq) + SumSeq(yseq)) % odim
AttLogProb(yseq, c) == att_top - 2 * ((c - AttBest(yseq) + odim) % odim)

\* rnnlm.predict(state, token): the state is the token history
LmLogProb(state, c) == -2 * (1 + ((c + seed + 1 + Len(state)) % odim))
RnnlmPredict(state, tok) ==
    LET st == Append(state, tok)
    IN [state |-> st, scores |-> [c \in Tokens |-> LmLogProb(st, c)]]
\* rnnlm.final(state)
RnnlmFinal(state) == -2 * (1 + ((seed + Len(state)) % 2))

\* CTCPrefixScore: the state is the label prefix it holds the forward
\* variables of; the score is the cumulative prefix log-probability.
CtcInitialState == <<>>
RECURSIVE CtcLogPsi(_)
CtcLogPsi(labels) ==
    IF labels = <<>> THEN 0
    ELSE CtcLogPsi(SubSeq(labels, 1, Len(labels) - 1))
         - 2 * (1 + ((Last(labels) + seed + Len(labels)) % odim))
CtcPrefixScore(y, cs, r_prev) ==
    [scores |-> [n \in 1 .. Len(cs) |-> CtcLogPsi(Append(r_prev, cs[n]))],
     states |-> [n \in 1 .. Len(cs) |-> Append(r_prev, cs[n])]]

\* end_detect(ended_hyps, i): a heuristic over the hypotheses ended in the
\* recent steps.  It cannot signal while nothing has ended; otherwise either
\* answer is possible.
EndDetectAnswers(ended, step) == IF ended = <<>> THEN {FALSE} ELSE BOOLEAN


\* ------------------------------------------------------------ hypotheses
\* A hypothesis dict.  Keys the code leaves out (no LM, no CTC) hold the
\* values below and are never read.
\* mutant: the search starts from the CTC state of the prefix <<0>>
InitialHypCtcAdvanced ==
    [score |-> 0, yseq |-> <<sos>>, rnnlm_prev |-> <<>>,
     ctc_state_prev |-> <<0>>, ctc_score_prev |-> -2]

\* mutant: the search starts from the blank symbol 0
InitialHypBlank ==
    [score |-> 0, yseq |-> <<0>>, rnnlm_prev |-> <<>>,
     ctc_state_prev |-> CtcInitialState, ctc_score_prev |-> 0]

InitialHyp ==
    [score |-> 0, yseq |-> <<sos>>, rnnlm_prev |-> <<>>,
     ctc_state_prev |-> CtcInitialState, ctc_score_prev |-> 0]

\* Lines 468-496 for one parent: the candidates passed to the CTC scorer
\* (ids), the token and the local score of each kept candidate (best_ids,
\* best_scores), and the new LM / CTC state of each.
Expansion(hyp) ==
    LET beam == recog_args.beam_size
        w == recog_args.ctc_weight
        att == [c \in Tokens |-> AttLogProb(hyp.yseq, c)]
        lm == RnnlmPredict(hyp.rnnlm_prev, hyp.yseq[i + 1])
        local_scores == IF rnnlm
                        THEN [c \in Tokens |-> att[c] + recog_args.lm_weight * lm.scores[c]]
                        ELSE att
    IN IF lpz
       THEN LET ids == Take(ArgsortDesc(local_scores, Tokens), ctc_beam)
                ctc == CtcPrefixScore(hyp.yseq, ids, hyp.ctc_state_prev)
                joint == [n \in 1 .. Len(ids) |->
                            ((2 - w) * att[ids[n]]
                               + w * (ctc.scores[n] - hyp.ctc_score_prev)) \div 2
                            + (IF rnnlm THEN recog_args.lm_weight * lm.scores[ids[n]]
                                        ELSE 0)]
                joint_best_ids == Take(ArgsortDesc(joint, 1 .. Len(ids)), beam)
            IN [ids |-> ids,
                best_ids |-> [j \in 1 .. Len(joint_best_ids) |-> ids[joint_best_ids[j]]],
                best_scores |-> [j \in 1 .. Len(joint_best_ids) |-> joint[joint_best_ids[j]]],
                ctc_states |-> [j \in 1 .. Len(joint_best_ids) |-> ctc.states[joint_best_ids[j]]],
                ctc_scores |-> [j \in 1 .. Len(joint_best_ids) |-> ctc.scores[joint_best_ids[j]]],
                rnnlm_state |-> lm.state]
       ELSE LET best == Take(ArgsortDesc(local_scores, Tokens), beam)
            IN [ids |-> <<>>,
                best_ids |-> best,
                best_scores |-> [j \in 1 .. Len(best) |-> local_scores[best[j]]],
                ctc_states |-> [j \in 1 .. Len(best) |-> CtcInitialState],
                ctc_scores |-> [j \in 1 .. Len(best) |-> 0],
                rnnlm_state |-> lm.state]

\* mutant: every child gets the CTC state and score of the first candidate
NewHypCtcOfFirst(hyp, e, j) ==
    [score |-> hyp.score + e.best_scores[j],
     yseq |-> Append(hyp.yseq, e.best_ids[j]),
     rnnlm_prev |-> IF rnnlm THEN e.rnnlm_state ELSE <<>>,
     ctc_state_prev |-> IF lpz THEN e.ctc_states[1] ELSE CtcInitialState,
     ctc_score_prev |-> IF lpz THEN e.ctc_scores[1] ELSE 0]

\* mutant: the chosen token is appended twice
NewHypTokenTwice(hyp, e, j) ==
    [score |-> hyp.score + e.best_scores[j],
     yseq |-> Append(Append(hyp.yseq, e.best_ids[j]), e.best_ids[j]),
     rnnlm_prev |-> IF rnnlm THEN e.rnnlm_state ELSE <<>>,
     ctc_state_prev |-> IF lpz THEN e.ctc_states[j] ELSE CtcInitialState,
     ctc_score_prev |-> IF lpz THEN e.ctc_scores[j] ELSE 0]

\* mutant: the child's score is the local score alone
NewHypNoParentScore(hyp, e, j) ==
    [score |-> e.best_scores[j],
     yseq |-> Append(hyp.yseq, e.best_ids[j]),
     rnnlm_prev |-> IF rnnlm THEN e.rnnlm_state ELSE <<>>,
     ctc_state_prev |-> IF lpz THEN e.ctc_states[j] ELSE CtcInitialState,
     ctc_score_prev |-> IF lpz THEN e.ctc_scores[j] ELSE 0]

\* Lines 499-508: the j-th child of hyp
NewHyp(hyp, e, j) ==
    [score |-> hyp.score + e.best_scores[j],
     yseq |-> Append(hyp.yseq, e.best_ids[j]),
     rnnlm_prev |-> IF rnnlm THEN e.rnnlm_state ELSE <<>>,
     ctc_state_prev |-> IF lpz THEN e.ctc_states[j] ELSE CtcInitialState,
     ctc_score_prev |-> IF lpz THEN e.ctc_scores[j] ELSE 0]

\* mutant: cut to beam without sorting
PruneUnsorted(kept, beam) == Take(kept, beam)

\* mutant: sorted but not cut to beam
PruneNoCut(kept, beam) == SortedByScore(kept)

\* Lines 511-512
Prune(kept, beam) == Take(SortedByScore(kept), beam)


\* --------------------------------------------------------------- inputs
MaxLenRatios == {0, 3, 10}       \* recog_args.maxlenratio, in tenths
MinLenRatios == {0, 3, 5, 9}     \* recog_args.minlenratio, in tenths
Penalties == {0, 2}              \* recog_args.penalty, in halves

\* The Namespaces recognize_beam may be called with.  recognize() (lines
\* 400-407) passes the CTC posteriors exactly when ctc_weight > 0 and a
\* language model only when lm_weight is not 0.
RecogArgs(beams, maxrs, minrs) ==
    {[beam_size |-> b, penalty |-> pn, ctc_weight |-> w, lm_weight |-> lw,
      maxlenratio |-> mx, minlenratio |-> [tenths |-> mn, ulp |-> 0]] :
        b \in beams, pn \in Penalties, w \in 0 .. 2, lw \in 0 .. 1,
        mx \in maxrs, mn \in minrs}

InitWith(Ts, beams, maxrs, minrs) ==
    /\ h_len \in Ts
    /\ odim \in 2 .. MaxOdim
    /\ seed \in 0 .. MaxSeed
    /\ recog_args \in RecogArgs(beams, maxrs, minrs)
    /\ lpz = (recog_args.ctc_weight > 0)
    /\ rnnlm = (recog_args.lm_weight # 0)
    /\ att_top = -2
    /\ caller_args = recog_args
    /\ first_nbest = <<>>
    /\ maxlen = 0 /\ minlen = 0 /\ ctc_beam = 0
    /\ i = 0 /\ p = 1
    /\ hyps = <<>> /\ hyps_best_kept = <<>> /\ ended_hyps = <<>>
    /\ remained_hyps = <<>> /\ nbest_hyps = <<>>
    /\ ctc_ids = <<>>
    /\ exit = "none"
    /\ depth = 0
    /\ TtsIdle /\ SamplerIdle /\ AdapterIdle
    /\ pc = "start"

Init == InitWith(0 .. MaxT, 1 .. MaxBeam, MaxLenRatios, MinLenRatios)

\* ---------------------------------------------------------------- actions
\* Lines 428-461: the locals of a call of recognize_beam before its loop
Start ==
    /\ pc = "start"
    /\ maxlen' = MaxLenOf(recog_args.maxlenratio, h_len)
    /\ minlen' = MinLenOf(recog_args.minlenratio, h_len)
    /\ ctc_beam' = IF lpz
                   THEN CtcBeamOf(recog_args.beam_size, recog_args.ctc_weight, odim)
                   ELSE 0
    /\ hyps' = <<InitialHyp>>
    /\ ended_hyps' = <<>>
    /\ hyps_best_kept' = <<>>
    /\ remained_hyps' = <<>>
    /\ nbest_hyps' = <<>>
    /\ i' = 0 /\ p' = 1
    /\ exit' = IF maxlen' > 0 THEN "none" ELSE "exhausted"
    /\ pc' = IF maxlen' > 0 THEN "expand" ELSE "final"
    /\ UNCHANGED <<config, recog_args, ctc_ids, depth>>

\* Lines 467-512 for the parent hyps[p]: expand it, append its children to
\* hyps_best_kept, sort and cut to beam.  range(beam) runs past the candidates
\* when there are fewer than beam of them: IndexError.
ExpandHyp ==
    /\ pc = "expand"
    /\ \E e \in {Expansion(hyps[p])} :
       LET hyp == hyps[p]
           n == Len(e.best_ids)
           beam == recog_args.beam_size
       IN /\ ctc_ids' = IF lpz THEN e.ids ELSE ctc_ids
          /\ IF n < beam
             THEN /\ hyps_best_kept' =
                        hyps_best_kept \o [j \in 1 .. n |-> NewHyp(hyp, e, j)]
                  /\ pc' = "raised"
                  /\ p' = p
             ELSE /\ hyps_best_kept' =
                        Prune(hyps_best_kept \o [j \in 1 .. beam |-> NewHyp(hyp, e, j)],
                              beam)
                  /\ IF p < Len(hyps)
                     THEN p' = p + 1 /\ pc' = "expand"
                     ELSE p' = p /\ pc' = "kept"
    /\ UNCHANGED <<config, recog_args, maxlen, minlen, ctc_beam, i, hyps,
                   ended_hyps, remained_hyps, nbest_hyps, exit, depth>>

\* mutant: eos appended to the best hypothesis only
ForceEosBestOnly(hs) ==
    [k \in 1 .. Len(hs) |-> IF k = 1 THEN [hs[k] EXCEPT !.yseq = Append(@, eos)]
                                     ELSE hs[k]]

\* Lines 515-526: the pruned list becomes hyps; in the last step eos is
\* appended to every one of them (the list and its dicts are shared with
\* hyps_best_kept)
ForceEos(hs) == [k \in 1 .. Len(hs) |-> [hs[k] EXCEPT !.yseq = Append(@, eos)]]

\* mutant: no eos is forced in the last step
KeptNoForceEos ==
    /\ pc = "kept"
    /\ hyps' = hyps_best_kept
    /\ hyps_best_kept' = hyps'
    /\ pc' = "filter"
    /\ UNCHANGED <<config, recog_args, maxlen, minlen, ctc_beam, i, p,
                   ended_hyps, remained_hyps, nbest_hyps, ctc_ids, exit, depth>>

Kept ==
    /\ pc = "kept"
    /\ hyps' = IF i = maxlen - 1 THEN ForceEos(hyps_best_kept) ELSE hyps_best_kept
    /\ hyps_best_kept' = hyps'
    /\ pc' = "filter"
    /\ UNCHANGED <<config, recog_args, maxlen, minlen, ctc_beam, i, p,
                   ended_hyps, remained_hyps, nbest_hyps, ctc_ids, exit, depth>>

\* mutant: a hypothesis of exactly minlen tokens is stored too
IsEndedAtMinlen(hyp) == Last(hyp.yseq) = eos /\ Len(hyp.yseq) >= minlen

\* mutant: the penalty counts i tokens instead of i + 1
FinishOffByOne(hyp) ==
    [hyp EXCEPT !.score = @ + i * recog_args.penalty
                            + (IF rnnlm
                               THEN recog_args.lm_weight * RnnlmFinal(hyp.rnnlm_prev)
                               ELSE 0)]

\* Lines 530-542
IsEnded(hyp) == Last(hyp.yseq) = eos /\ Len(hyp.yseq) > minlen
IsRemained(hyp) == Last(hyp.yseq) # eos
Finish(hyp) ==
    [hyp EXCEPT !.score = @ + (i + 1) * recog_args.penalty
                            + (IF rnnlm
                               THEN recog_args.lm_weight * RnnlmFinal(hyp.rnnlm_prev)
                               ELSE 0)]

Filter ==
    /\ pc = "filter"
    /\ hyps' = [k \in 1 .. Len(hyps) |->
                  IF IsEnded(hyps[k]) THEN Finish(hyps[k]) ELSE hyps[k]]
    /\ hyps_best_kept' = hyps'
    /\ ended_hyps' = ended_hyps \o SelectSeq(hyps', IsEnded)
    /\ remained_hyps' = SelectSeq(hyps, IsRemained)
    /\ pc' = "end_detect"
    /\ UNCHANGED <<config, recog_args, maxlen, minlen, ctc_beam, i, p,
                   nbest_hyps, ctc_ids, exit, depth>>

\* mutant: the end detector stops the loop whatever maxlenratio is
EndDetectAnyRatio ==
    /\ pc = "end_detect"
    /\ \E sig \in EndDetectAnswers(ended_hyps, i) :
         IF sig
         THEN /\ exit' = "end_detect"
              /\ pc' = "final"
              /\ UNCHANGED <<hyps, hyps_best_kept, i, p>>
         ELSE /\ hyps' = remained_hyps
              /\ IF Len(remained_hyps) > 0
                 THEN /\ i' = i + 1
                      /\ p' = 1
                      /\ IF i + 1 < maxlen
                         THEN /\ hyps_best_kept' = <<>>
                              /\ pc' = "expand"
                              /\ exit' = exit
                         ELSE /\ hyps_best_kept' = hyps_best_kept
                              /\ pc' = "final"
                              /\ exit' = "exhausted"
                 ELSE /\ exit' = "empty"
                      /\ pc' = "final"
                      /\ UNCHANGED <<hyps_best_kept, i, p>>
    /\ UNCHANGED <<config, recog_args, maxlen, minlen, ctc_beam,
                   ended_hyps, remained_hyps, nbest_hyps, ctc_ids, depth>>

\* Lines 544-555
EndDetect ==
    /\ pc = "end_detect"
    /\ \E sig \in EndDetectAnswers(ended_hyps, i) :
         IF sig /\ recog_args.maxlenratio = 0
         THEN /\ exit' = "end_detect"
              /\ pc' = "final"
              /\ UNCHANGED <<hyps, hyps_best_kept, i, p>>
         ELSE /\ hyps' = remained_hyps
              /\ IF Len(remained_hyps) > 0
                 THEN /\ i' = i + 1
                      /\ p' = 1
                      /\ IF i + 1 < maxlen
                         THEN /\ hyps_best_kept' = <<>>
                              /\ pc' = "expand"
                              /\ exit' = exit
                         ELSE /\ hyps_best_kept' = hyps_best_kept
                              /\ pc' = "final"
                              /\ exit' = "exhausted"
                 ELSE /\ exit' = "empty"
                      /\ pc' = "final"
                      /\ UNCHANGED <<hyps_best_kept, i, p>>
    /\ UNCHANGED <<config, recog_args, maxlen, minlen, ctc_beam,
                   ended_hyps, remained_hyps, nbest_hyps, ctc_ids, depth>>

\* mutant: the sorted list is returned also when it is empty
FinalNoRetry ==
    /\ pc = "final"
    /\ nbest_hyps' = SortedByScore(ended_hyps)
    /\ pc' = "done"
    /\ UNCHANGED <<config, recog_args, depth, maxlen, minlen, ctc_beam, i, p, hyps,
                   hyps_best_kept, ended_hyps, remained_hyps, ctc_ids, exit>>

\* mutant: minlenratio is written into the Namespace the caller passed
FinalNoCopy ==
    /\ pc = "final"
    /\ nbest_hyps' = SortedByScore(ended_hyps)
    /\ IF Len(nbest_hyps') = 0
       THEN /\ recog_args' = [recog_args EXCEPT
                                !.minlenratio = RelaxMinLenRatio(@)]
            /\ caller_args' = [caller_args EXCEPT
                                 !.minlenratio = recog_args'.minlenratio]
            /\ depth' = Min2(depth + 1, MaxDepth)
            /\ pc' = "start"
       ELSE /\ pc' = "done"
            /\ UNCHANGED <<recog_args, caller_args, depth>>
    /\ UNCHANGED <<h_len, odim, seed, lpz, rnnlm, att_top, first_nbest,
                   tts, sampler, adapter,
                   maxlen, minlen, ctc_beam, i, p, hyps, hyps_best_kept,
                   ended_hyps, remained_hyps, ctc_ids, exit>>

\* mutant: the ended list is returned in the order of its growth
FinalUnsorted ==
    /\ pc = "final"
    /\ nbest_hyps' = ended_hyps
    /\ IF Len(nbest_hyps') = 0
       THEN /\ recog_args' = [recog_args EXCEPT
                                !.minlenratio = RelaxMinLenRatio(@)]
            /\ depth' = Min2(depth + 1, MaxDepth)
            /\ pc' = "start"
       ELSE /\ pc' = "done"
            /\ UNCHANGED <<recog_args, depth>>
    /\ UNCHANGED <<config, maxlen, minlen, ctc_beam, i, p, hyps, hyps_best_kept,
                   ended_hyps, remained_hyps, ctc_ids, exit>>

\* Lines 563-578: sort the ended hypotheses; return them, or call
\* recognize_beam again on a copy of recog_args with a smaller minlenratio
\* (line 571 copies the Namespace before line 572 writes it, so caller_args,
\* which is part of config, is left alone)
Final ==
    /\ pc = "final"
    /\ nbest_hyps' = SortedByScore(ended_hyps)
    /\ IF Len(nbest_hyps') = 0
       THEN /\ recog_args' = [recog_args EXCEPT
                                !.minlenratio = RelaxMinLenRatio(@)]
            /\ depth' = Min2(depth + 1, MaxDepth)
            /\ pc' = "start"
       ELSE /\ pc' = "done"
            /\ UNCHANGED <<recog_args, depth>>
    /\ UNCHANGED <<config, maxlen, minlen, ctc_beam, i, p, hyps, hyps_best_kept,
                   ended_hyps, remained_hyps, ctc_ids, exit>>

Next == Start \/ ExpandHyp \/ Kept \/ Filter \/ EndDetect \/ Final

Spec == Init /\ [][Next]_vars

\* Short inputs, the empty one included.  The interpreter keeps running the
\* call: a step that can be taken is taken.  ExpandHyp is enabled exactly
\* when pc = "expand", and its weak fairness is written with that.
InitShort == InitWith(0 .. 1, 1 .. MaxBeam, MaxLenRatios, {0, 3})
FairSpec ==
    /\ InitShort /\ [][Next]_vars
    /\ WF_vars(Start) /\ WF_vars(Kept) /\ WF_vars(Filter)
    /\ WF_vars(EndDetect) /\ WF_vars(Final)
    /\ ([]<>(pc # "expand") \/ []<><<ExpandHyp>>_vars)


\* A 10-frame utterance decoded with minlenratio = 0.5
InitC5 == InitWith({10}, 1 .. MaxBeam, MaxLenRatios, {5})
SpecC5 == InitC5 /\ [][Next]_vars

\* The caller decodes the same input twice with the same parameters but
\* beam_size: first with beam_size = 1, then, when that call has returned,
\* with beam_size = 5.
SecondCall ==
    /\ pc = "done"
    /\ first_nbest = <<>>
    /\ first_nbest' = nbest_hyps
    /\ recog_args' = [caller_args EXCEPT !.beam_size = 5]
    /\ depth' = 0
    /\ pc' = "start"
    /\ UNCHANGED <<h_len, odim, seed, lpz, rnnlm, att_top, caller_args,
                   tts, sampler, adapter,
                   maxlen, minlen, ctc_beam, i, p, hyps, hyps_best_kept,
                   ended_hyps, remained_hyps, nbest_hyps, ctc_ids, exit>>

\* A decoder with sharply peaked distributions (the preferred token has
\* log-probability 0), no CTC and no language model, a vocabulary of at least
\* 5 tokens, beam_size = 1 in the first call
InitC16 ==
    /\ h_len \in 0 .. MaxT
    /\ odim \in 5 .. (MaxOdim + 2)
    /\ seed \in 0 .. MaxSeed
    /\ recog_args \in
         {[beam_size |-> 1, penalty |-> pn, ctc_weight |-> 0, lm_weight |-> 0,
           maxlenratio |-> mx, minlenratio |-> [tenths |-> mn, ulp |-> 0]] :
             pn \in Penalties, mx \in MaxLenRatios, mn \in MinLenRatios}
    /\ lpz = FALSE
    /\ rnnlm = FALSE
    /\ att_top = 0
    /\ caller_args = recog_args
    /\ first_nbest = <<>>
    /\ maxlen = 0 /\ minlen = 0 /\ ctc_beam = 0
    /\ i = 0 /\ p = 1
    /\ hyps = <<>> /\ hyps_best_kept = <<>> /\ ended_hyps = <<>>
    /\ remained_hyps = <<>> /\ nbest_hyps = <<>>
    /\ ctc_ids = <<>>
    /\ exit = "none"
    /\ depth = 0
    /\ TtsIdle /\ SamplerIdle /\ AdapterIdle
    /\ pc = "start"

NextC16 == Next \/ SecondCall

\* recognize() called with a ctc_weight outside [0, 1]: -0.5 or 1.5.  Lines
\* 400-403 compute the CTC posteriors when ctc_weight > 0.0, whatever its size.
InitC17 ==
    /\ h_len \in 0 .. MaxT
    /\ odim \in 2 .. MaxOdim
    /\ seed \in 0 .. MaxSeed
    /\ recog_args \in
         {[beam_size |-> b, penalty |-> pn, ctc_weight |-> w, lm_weight |-> lw,
           maxlenratio |-> mx, minlenratio |-> [tenths |-> mn, ulp |-> 0]] :
             b \in 1 .. MaxBeam, pn \in Penalties, w \in {-1, 3}, lw \in 0 .. 1,
             mx \in MaxLenRatios, mn \in {0, 5}}
    /\ lpz = (recog_args.ctc_weight > 0)
    /\ rnnlm = (recog_args.lm_weight # 0)
    /\ att_top = -2
    /\ caller_args = recog_args
    /\ first_nbest = <<>>
    /\ maxlen = 0 /\ minlen = 0 /\ ctc_beam = 0
    /\ i = 0 /\ p = 1
    /\ hyps = <<>> /\ hyps_best_kept = <<>> /\ ended_hyps = <<>>
    /\ remained_hyps = <<>> /\ nbest_hyps = <<>>
    /\ ctc_ids = <<>>
    /\ exit = "none"
    /\ depth = 0
    /\ TtsIdle /\ SamplerIdle /\ AdapterIdle
    /\ pc = "start"

SpecC17 == InitC17 /\ [][Next]_vars

\* ------------------------------------------------------- recognize_beam2
\* E2E.recognize_beam2 (lines 340-381).  Its locals are kept in the variables
\* of the same name: maxlen, nbest_hyps, i for step, and hyps = <<[score, yseq]>>
\* for the pair (score, ys).

\* F.argmax: the first index of the largest value
ArgMax(f, D) == CHOOSE x \in D : \A y \in D : f[x] > f[y] \/ (f[x] = f[y] /\ x <= y)

InitBeam2 ==
    /\ h_len \in 0 .. MaxT
    /\ odim \in 2 .. MaxOdim
    /\ seed \in 0 .. MaxSeed
    /\ recog_args \in
         {[beam_size |-> b, penalty |-> pn, ctc_weight |-> w, lm_weight |-> lw,
           maxlenratio |-> mx, minlenratio |-> [tenths |-> mn, ulp |-> 0]] :
             b \in 1 .. MaxBeam + 1, pn \in Penalties, w \in -1 .. 2, lw \in 0 .. 1,
             mx \in MaxLenRatios, mn \in {0, 5}}
    /\ lpz = FALSE
    /\ rnnlm \in BOOLEAN
    /\ att_top = -2
    /\ caller_args = recog_args
    /\ first_nbest = <<>>
    /\ maxlen = 0 /\ minlen = 0 /\ ctc_beam = 0
    /\ i = 0 /\ p = 1
    /\ hyps = <<>> /\ hyps_best_kept = <<>> /\ ended_hyps = <<>>
    /\ remained_hyps = <<>> /\ nbest_hyps = <<>>
    /\ ctc_ids = <<>>
    /\ exit = "none"
    /\ depth = 0
    /\ TtsIdle /\ SamplerIdle /\ AdapterIdle
    /\ pc = "start2"

\* mutant: any beam_size is served by the greedy search
Start2SilentFallback ==
    /\ pc = "start2"
    /\ IF recog_args.ctc_weight > 0
       THEN /\ pc' = "not_implemented"
            /\ UNCHANGED <<hyps, maxlen, i>>
       ELSE /\ hyps' = <<[score |-> 0, yseq |-> <<sos>>]>>
            /\ maxlen' = h_len + 1
            /\ i' = 0
            /\ pc' = "greedy"
    /\ UNCHANGED <<config, recog_args, minlen, ctc_beam, p, hyps_best_kept,
                   ended_hyps, remained_hyps, nbest_hyps, ctc_ids, exit, depth>>

\* Lines 357-363 and 379-380: the two NotImplementedError exits, or the locals
\* of the greedy search
Start2 ==
    /\ pc = "start2"
    /\ IF recog_args.ctc_weight > 0
       THEN /\ pc' = "not_implemented"
            /\ UNCHANGED <<hyps, maxlen, i>>
       ELSE IF recog_args.beam_size = 1
       THEN /\ hyps' = <<[score |-> 0, yseq |-> <<sos>>]>>
            /\ maxlen' = h_len + 1
            /\ i' = 0
            /\ pc' = "greedy"
       ELSE /\ pc' = "not_implemented"
            /\ UNCHANGED <<hyps, maxlen, i>>
    /\ UNCHANGED <<config, recog_args, minlen, ctc_beam, p, hyps_best_kept,
                   ended_hyps, remained_hyps, nbest_hyps, ctc_ids, exit, depth>>

\* mutant: the loop does not break at eos and runs all maxlen passes
GreedyStepNoBreak ==
    /\ pc = "greedy"
    /\ LET ys == hyps[1].yseq
           prob == [c \in Tokens |-> AttLogProb(ys, c)]
           argmax == ArgMax(prob, Tokens)
           next_id == IF i = maxlen - 1 THEN eos ELSE argmax
       IN /\ hyps' = <<[score |-> hyps[1].score + prob[argmax],
                        yseq |-> Append(ys, next_id)]>>
          /\ IF i = maxlen - 1
             THEN pc' = "return2" /\ i' = i
             ELSE pc' = "greedy" /\ i' = i + 1
    /\ UNCHANGED <<config, recog_args, maxlen, minlen, ctc_beam, p, hyps_best_kept,
                   ended_hyps, remained_hyps, nbest_hyps, ctc_ids, exit, depth>>

\* Lines 364-377: one pass of "for step in range(maxlen)"
GreedyStep ==
    /\ pc = "greedy"
    /\ LET ys == hyps[1].yseq
           prob == [c \in Tokens |-> AttLogProb(ys, c)]
           argmax == ArgMax(prob, Tokens)
           next_id == IF i = maxlen - 1 THEN eos ELSE argmax
       IN /\ hyps' = <<[score |-> hyps[1].score + prob[argmax],
                        yseq |-> Append(ys, next_id)]>>
          /\ IF next_id = eos
             THEN pc' = "return2" /\ i' = i
             ELSE pc' = "greedy" /\ i' = i + 1
    /\ UNCHANGED <<config, recog_args, maxlen, minlen, ctc_beam, p, hyps_best_kept,
                   ended_hyps, remained_hyps, nbest_hyps, ctc_ids, exit, depth>>

\* Lines 378 and 381
Return2 ==
    /\ pc = "return2"
    /\ nbest_hyps' = <<hyps[1]>>
    /\ pc' = "done2"
    /\ UNCHANGED <<config, recog_args, maxlen, minlen, ctc_beam, i, p, hyps,
                   hyps_best_kept, ended_hyps, remained_hyps, ctc_ids, exit, depth>>

NextBeam2 == Start2 \/ GreedyStep \/ Return2

SpecBeam2 == InitBeam2 /\ [][NextBeam2]_vars

SpecC16 == InitC16 /\ [][NextC16]_vars

\* The variables of the speech recogniser, when no recognition is under study
asr == <<h_len, odim, seed, lpz, rnnlm, att_top, caller_args, first_nbest,
         recog_args, ctc_beam, i, p, hyps, hyps_best_kept, ended_hyps,
         remained_hyps, nbest_hyps, ctc_ids, exit, depth>>
AsrIdle ==
    /\ odim = 2 /\ seed = 0 /\ lpz = FALSE /\ rnnlm = FALSE /\ att_top = 0
    /\ caller_args = <<>> /\ first_nbest = <<>> /\ recog_args = <<>>
    /\ ctc_beam = 0 /\ i = 0 /\ p = 1
    /\ hyps = <<>> /\ hyps_best_kept = <<>> /\ ended_hyps = <<>>
    /\ remained_hyps = <<>> /\ nbest_hyps = <<>>
    /\ ctc_ids = <<>> /\ exit = "none" /\ depth = 0

\* ------------------------------------------------------ Decoder.inference
\* Decoder.inference of src/nets/e2e_tts_th.py (lines 639-709).  h_len is
\* h.size(0); maxlen and minlen are its locals of that name.  Ratios, the
\* threshold and the stop probabilities are in tenths.
TtsMaxLenRatios == {0, 5, 10, 20}
TtsMinLenRatios == {0, 5, 10}
StopProbs == {2, 8}

\* The loop index is followed up to here; no input of the model has a
\* larger maxlen
MaxIdx == 2 * MaxT + 2

\* int(h.size(0) * ratio) of lines 657-658
LenOf(T, ratio) == (T * ratio) \div 10

InitTts ==
    /\ h_len \in 1 .. MaxT
    /\ threshold = 5
    /\ maxlenratio \in TtsMaxLenRatios
    /\ minlenratio \in TtsMinLenRatios
    /\ idx = 0 /\ probs = <<>>
    /\ maxlen = 0 /\ minlen = 0
    /\ AsrIdle /\ SamplerIdle /\ AdapterIdle
    /\ pc = "inference"

\* Lines 653-674: the setup, up to "idx = 0"
InferenceSetup ==
    /\ pc = "inference"
    /\ maxlen' = LenOf(h_len, maxlenratio)
    /\ minlen' = LenOf(h_len, minlenratio)
    /\ idx' = 0
    /\ probs' = <<>>
    /\ pc' = "tts_loop"
    /\ UNCHANGED <<asr, h_len, threshold, minlenratio, maxlenratio, sampler, adapter>>

\* Lines 675-707: one pass of "while True"; the network gives any stop
\* probability
InferenceStep ==
    /\ pc = "tts_loop"
    /\ idx < MaxIdx
    /\ \E prob \in StopProbs :
         /\ idx' = idx + 1
         /\ probs' = Append(probs, prob)
         /\ pc' = IF (prob >= threshold /\ idx' >= minlen) \/ idx' = maxlen
                  THEN "tts_done"
                  ELSE "tts_loop"
    /\ UNCHANGED <<asr, h_len, maxlen, minlen, threshold, minlenratio, maxlenratio,
                   sampler, adapter>>

NextTts == InferenceSetup \/ InferenceStep

SpecTts == InitTts /\ [][NextTts]_vars

\* ------------------------------------------------------------ BatchSampler
\* BatchSampler of espnet2/train/dataset.py (lines 18-64) with type 'const'.
\* An utterance key is its line number in the shape file; utt2shape[k] is
\* the length (first column of the shape) of utterance k.
Lengths == {1, 2, 3}
MaxBatchSize == 3

\* sorted(utt2shape, key=lambda k: -utt2shape[k][0]) (line 42): descending
\* length, keys of equal length in file order (the sort is stable)
RECURSIVE SortedKeys(_, _)
SortedKeys(shape, rest) ==
    IF rest = {} THEN <<>>
    ELSE LET k == CHOOSE c \in rest :
                    \A o \in rest : shape[c] > shape[o]
                                     \/ (shape[c] = shape[o] /\ c <= o)
         IN <<k>> \o SortedKeys(shape, rest \ {k})

\* keys[a:b] with Python's 0-based, end-exclusive, clipped slice
Slice(s, a, b) == SubSeq(s, a + 1, Min2(b, Len(s)))

\* int(np.ceil(a / b))
CeilDiv(a, b) == (a + b - 1) \div b

\* Lines 44-47: one batch for each i of range(0, ceil(len(keys) / batch_size),
\* batch_size)
BatchListOf(keys, bs) ==
    [m \in 1 .. CeilDiv(CeilDiv(Len(keys), bs), bs) |->
        Slice(keys, (m - 1) * bs, (m - 1) * bs + bs)]

\* np.random.shuffle: any order of the same batches
Shuffles(l) ==
    {[m \in 1 .. Len(l) |-> l[f[m]]] :
        f \in {g \in [1 .. Len(l) -> 1 .. Len(l)] :
                 \A a, b \in 1 .. Len(l) : g[a] = g[b] => a = b}}

InitSampler ==
    /\ utt2shape \in UNION {[1 .. n -> Lengths] : n \in 0 .. MaxKeys}
    /\ batch_size \in 1 .. MaxBatchSize
    /\ shuffle \in BOOLEAN
    /\ batch_list = <<>> /\ yielded = <<>>
    /\ h_len = 0 /\ maxlen = 0 /\ minlen = 0
    /\ AsrIdle /\ TtsIdle /\ AdapterIdle
    /\ pc = "sampler_new"

\* BatchSampler.__init__ (lines 20-56), type == 'const'
BatchSamplerInit ==
    /\ pc = "sampler_new"
    /\ LET keys == SortedKeys(utt2shape, DOMAIN utt2shape)
           built == BatchListOf(keys, batch_size)
       IN batch_list' \in (IF shuffle THEN Shuffles(built) ELSE {built})
    /\ pc' = "sampler_ready"
    /\ UNCHANGED <<asr, h_len, maxlen, minlen, tts, utt2shape, batch_size, shuffle,
                   yielded, adapter>>

\* BatchSampler.__iter__ (lines 62-64): the next batch is yielded
Iter ==
    /\ pc = "sampler_ready"
    /\ Len(yielded) < Len(batch_list)
    /\ yielded' = Append(yielded, batch_list[Len(yielded) + 1])
    /\ UNCHANGED <<asr, h_len, maxlen, minlen, tts, utt2shape, batch_size, shuffle,
                   batch_list, adapter, pc>>

NextSampler == BatchSamplerInit \/ Iter

SpecSampler == InitSampler /\ [][NextSampler]_vars

\* ------------------------------------------------ AdapterForSoundScpReader
\* AdapterForSoundScpReader of espnet2/train/dataset.py (lines 118-142).
\* loader[k] is the sampling rate (kHz) of the file of key k; a key outside
\* the scp makes the loader raise KeyError.  Each call is written to calls
\* with what was read (<<>> if nothing) and self.rate before and after it.
Rates == {8, 16}

InitAdapter ==
    /\ loader \in UNION {[1 .. n -> Rates] : n \in 1 .. MaxKeys}
    /\ rate = <<>>
    /\ calls = <<>>
    /\ h_len = 0 /\ maxlen = 0 /\ minlen = 0
    /\ AsrIdle /\ TtsIdle /\ SamplerIdle
    /\ pc = "adapter"

\* mutant: the rate read is recorded and the array returned without a check
GetItemNoCheck ==
    /\ pc = "adapter"
    /\ Len(calls) < MaxCalls
    /\ \E key \in 1 .. Len(loader) + 1 :
         IF key \notin DOMAIN loader
         THEN /\ calls' = Append(calls, [key |-> key, read |-> <<>>,
                                         result |-> "KeyError",
                                         rate_before |-> rate, rate_after |-> rate])
              /\ rate' = rate
         ELSE /\ rate' = <<loader[key]>>
              /\ calls' = Append(calls, [key |-> key, read |-> <<loader[key]>>,
                                         result |-> "array",
                                         rate_before |-> rate, rate_after |-> rate'])
    /\ UNCHANGED <<asr, h_len, maxlen, minlen, tts, sampler, loader, pc>>

\* __getitem__ (lines 134-142)
GetItem ==
    /\ pc = "adapter"
    /\ Len(calls) < MaxCalls
    /\ \E key \in 1 .. Len(loader) + 1 :
         IF key \notin DOMAIN loader
         THEN /\ calls' = Append(calls, [key |-> key, read |-> <<>>,
                                         result |-> "KeyError",
                                         rate_before |-> rate, rate_after |-> rate])
              /\ rate' = rate
         ELSE IF rate # <<>> /\ rate # <<loader[key]>>
         THEN /\ calls' = Append(calls, [key |-> key, read |-> <<loader[key]>>,
                                         result |-> "RuntimeError",
                                         rate_before |-> rate, rate_after |-> rate])
              /\ rate' = rate
         ELSE /\ rate' = <<loader[key]>>
              /\ calls' = Append(calls, [key |-> key, read |-> <<loader[key]>>,
                                         result |-> "array",
                                         rate_before |-> rate, rate_after |-> rate'])
    /\ UNCHANGED <<asr, h_len, maxlen, minlen, tts, sampler, loader, pc>>

NextAdapter == GetItem

SpecAdapter == InitAdapter /\ [][NextAdapter]_vars

\* ------------------------------------------------------------------ claims
Range(s) == {s[k] : k \in 1 .. Len(s)}
YSeqs(s) == {s[k].yseq : k \in 1 .. Len(s)}
\* Some parent of the current step has just been expanded
Expanded == pc \in {"kept", "filter", "end_detect", "raised"} \/ (pc = "expand" /\ p > 1)

\* C1: the list kept after pruning, and the beam carried into the next step,
\* never hold more than beam_size hypotheses.
C1_BeamSize ==
    /\ Len(hyps_best_kept) <= recog_args.beam_size
    /\ Len(hyps) <= recog_args.beam_size

\* Two parents have been expanded (four children) and two were kept
C1_Witness ==
    /\ pc = "kept" /\ p = 2
    /\ recog_args.beam_size = 2 /\ Len(hyps_best_kept) = 2

\* C2: from the forced eos of step i = maxlen - 1 on, every hypothesis that
\* survived the pruning of that step ends with eos, and none remains live.
C2_ForceEos ==
    (i = maxlen - 1 /\ pc \in {"filter", "end_detect", "final"}) =>
        /\ \A k \in 1 .. Len(hyps) : Last(hyps[k].yseq) = eos
        /\ pc # "filter" => remained_hyps = <<>>

\* The last step of a run of several steps, with a hypothesis the decoder
\* had not ended itself
C2_Witness ==
    /\ pc = "end_detect" /\ i = maxlen - 1 /\ maxlen >= 2
    /\ \E k \in 1 .. Len(hyps) : hyps[k].yseq[Len(hyps[k].yseq) - 1] # eos

C4_Filter ==
    /\ pc = "end_detect" =>
         \A k \in 1 .. Len(hyps) :
            LET hyp == hyps[k]
            IN IF Last(hyp.yseq) = eos
               THEN /\ hyp.yseq \notin YSeqs(remained_hyps)
                    /\ hyp \in Range(ended_hyps) <=> Len(hyp.yseq) > minlen
                    /\ hyp.yseq \in YSeqs(ended_hyps) <=> Len(hyp.yseq) > minlen
               ELSE /\ hyp \in Range(remained_hyps)
                    /\ hyp.yseq \notin YSeqs(ended_hyps)
    /\ (pc = "expand" /\ i > 0) => hyps = remained_hyps

\* A step that drops an ended hypothesis as too short and keeps another live
C4_Witness ==
    /\ pc = "end_detect"
    /\ \E k \in 1 .. Len(hyps) :
          Last(hyps[k].yseq) = eos /\ Len(hyps[k].yseq) <= minlen
    /\ \E k \in 1 .. Len(hyps) : Last(hyps[k].yseq) # eos


\* C5 as claimed: with minlenratio = 0.5 and 10 frames no hypothesis of fewer
\* than 5 tokens is ever in the ended list, nor in the returned N-best list
C5_NoShortHyp ==
    /\ \A k \in 1 .. Len(ended_hyps) : Len(ended_hyps[k].yseq) >= 5
    /\ pc = "done" => \A k \in 1 .. Len(nbest_hyps) : Len(nbest_hyps[k].yseq) >= 5

\* C5, amended: that holds of the search run made with minlenratio = 0.5 (and
\* of the list returned when that run finds an ended hypothesis); a retry run
\* works with a smaller minlenratio.
C5_NoShortHypBeforeRetry ==
    recog_args.minlenratio.tenths = 5 =>
        /\ \A k \in 1 .. Len(ended_hyps) : Len(ended_hyps[k].yseq) >= 5
        /\ pc = "done" => \A k \in 1 .. Len(nbest_hyps) : Len(nbest_hyps[k].yseq) >= 5

\* The run with minlenratio = 0.5 rejects a completed hypothesis of fewer than
\* 5 tokens
C5_Witness ==
    /\ pc = "end_detect" /\ recog_args.minlenratio.tenths = 5 /\ h_len = 10
    /\ \E k \in 1 .. Len(hyps) :
          Last(hyps[k].yseq) = eos /\ Len(hyps[k].yseq) < 5

\* C6: a run that ends with an empty ended list is followed by a new call with
\* minlenratio reduced by 0.1 (not below 0) and nothing else changed, and a
\* call starts from the beam <<[sos]>> with score 0 and no ended, kept or
\* remained hypothesis.
C6_Retry ==
    /\ [][(pc = "final" /\ ended_hyps = <<>>) =>
            /\ pc' = "start"
            /\ recog_args'.minlenratio.tenths
                 = Max2(0, recog_args.minlenratio.tenths - 1)
            /\ [recog_args' EXCEPT !.minlenratio = 0]
                 = [recog_args EXCEPT !.minlenratio = 0]
            /\ UNCHANGED config]_vars
    /\ [][pc = "start" =>
            /\ Len(hyps') = 1
            /\ hyps'[1].score = 0 /\ hyps'[1].yseq = <<sos>>
            /\ ended_hyps' = <<>> /\ hyps_best_kept' = <<>> /\ remained_hyps' = <<>>
            /\ i' = 0]_vars

\* A retry run at the entry of its loop, after a run that had expanded
\* hypotheses
C6_Witness ==
    /\ depth >= 1 /\ pc = "expand" /\ i = 0 /\ p = 1
    /\ hyps = <<InitialHyp>> /\ ended_hyps = <<>>
    /\ recog_args.minlenratio.tenths < 9

\* C7 as claimed: when the beam becomes empty before any hypothesis has
\* ended, the call returns an empty N-best list
C7_EmptyNBest ==
    [][(pc = "final" /\ exit = "empty" /\ ended_hyps = <<>>) =>
          (pc' = "done" /\ nbest_hyps' = <<>>)]_vars

\* C7, amended: when the beam becomes empty before any hypothesis has ended,
\* the call does not return but searches again with a smaller minlenratio; no
\* empty N-best list is ever returned.
C7_RetryNotEmptyNBest ==
    /\ [][(pc = "final" /\ exit = "empty" /\ ended_hyps = <<>>) =>
            /\ pc' = "start"
            /\ recog_args'.minlenratio.tenths
                 = Max2(0, recog_args.minlenratio.tenths - 1)]_vars
    /\ [](pc = "done" => Len(nbest_hyps) > 0)

\* A new call made after the beam of the run before ran empty, before its
\* last step, with nothing ended
C7_Witness ==
    /\ pc = "start" /\ depth >= 1
    /\ exit = "empty" /\ ended_hyps = <<>> /\ i < maxlen - 1

\* C8: the loop is left on end detection only when maxlenratio = 0; with
\* maxlenratio > 0 it is left only at step maxlen - 1 or with an empty beam.
C8_EndDetect ==
    pc = "final" =>
        /\ exit = "end_detect" => recog_args.maxlenratio = 0
        /\ recog_args.maxlenratio > 0 => (hyps = <<>> \/ i = maxlen - 1)

\* The loop left on end detection before its last step, with live hypotheses
C8_Witness ==
    /\ pc = "final" /\ exit = "end_detect"
    /\ i < maxlen - 1 /\ Len(remained_hyps) > 0

\* C9: maxlen = max(1, floor(maxlenratio * T)) when maxlenratio > 0 and T when
\* maxlenratio = 0; minlen = floor(minlenratio * T).
C9_Lengths ==
    pc # "start" =>
        LET mx == recog_args.maxlenratio
            mn == recog_args.minlenratio
        IN /\ mx = 0 => maxlen = h_len
           /\ mx > 0 =>
                /\ maxlen >= 1
                /\ \/ maxlen = 1 /\ mx * h_len < 10
                   \/ 10 * maxlen <= mx * h_len /\ mx * h_len < 10 * (maxlen + 1)
           \* minlenratio is slightly below mn.tenths / 10 when mn.ulp = -1
           /\ minlen >= 0
           /\ IF mn.ulp = -1 /\ mn.tenths * h_len > 0
              THEN 10 * minlen < mn.tenths * h_len
                   /\ mn.tenths * h_len <= 10 * (minlen + 1)
              ELSE 10 * minlen <= mn.tenths * h_len
                   /\ mn.tenths * h_len < 10 * (minlen + 1)

\* maxlenratio * T is below 1 and maxlen is 1
C9_Witness ==
    /\ pc = "expand" /\ recog_args.maxlenratio > 0
    /\ recog_args.maxlenratio * h_len < 10 /\ h_len > 0
    /\ maxlen = 1 /\ minlen >= 1

\* C10 as claimed: the CTC scorer gets min(vocab_size, floor(beam_size * 1.5))
\* candidates, whatever ctc_weight is
C10_CtcCandidates ==
    (lpz /\ Expanded) =>
        Len(ctc_ids) = Min2(odim, (3 * recog_args.beam_size) \div 2)

\* C10, amended: it gets that many when ctc_weight < 1, and the whole
\* vocabulary when ctc_weight = 1.
C10_CtcCandidatesByWeight ==
    (lpz /\ Expanded) =>
        Len(ctc_ids) = IF recog_args.ctc_weight < 2
                       THEN Min2(odim, (3 * recog_args.beam_size) \div 2)
                       ELSE odim

\* ctc_weight = 1 and a vocabulary larger than floor(beam_size * 1.5)
C10_Witness ==
    /\ lpz /\ pc = "kept" /\ recog_args.ctc_weight = 2
    /\ odim > (3 * recog_args.beam_size) \div 2
    /\ Len(ctc_ids) = odim

\* The parent expanded last in the current step
LastParent == IF pc = "expand" THEN hyps[p - 1] ELSE hyps[p]
ParentExpanded == pc \in {"kept", "raised"} \/ (pc = "expand" /\ p > 1)

\* C11: with a CTC posterior matrix the candidates sent to the CTC prefix
\* scorer are the ctc_beam tokens with the highest attention score alone,
\* also when a language model is supplied with lm_weight > 0.
C11_CtcCandidatesByAttention ==
    (lpz /\ ParentExpanded) =>
        Range(ctc_ids) =
            Range(Take(ArgsortDesc([c \in Tokens |-> AttLogProb(LastParent.yseq, c)],
                                   Tokens),
                       ctc_beam))

\* Twice the combined local score of candidate c after parent, from the
\* collaborators' answers: attention, CTC prefix score and language model
CombinedScore2(parent, c) ==
    LET w == recog_args.ctc_weight
        att == AttLogProb(parent.yseq, c)
        lm == IF rnnlm
              THEN recog_args.lm_weight
                     * LmLogProb(Append(parent.rnnlm_prev, parent.yseq[i + 1]), c)
              ELSE 0
        ctc == CtcLogPsi(Append(parent.ctc_state_prev, c))
    IN IF lpz
       THEN (2 - w) * att + w * (ctc - parent.ctc_score_prev) + 2 * lm
       ELSE 2 * att + 2 * lm

\* C12: every child built in a step is its parent's tokens followed by the
\* candidate, with the parent's score plus the combined local score
\* ((1 - ctc_weight) * att + ctc_weight * (ctc - parent's ctc_score_prev)
\* + lm_weight * lm with CTC, att + lm_weight * lm without); the parents are
\* the beam as the step received it, tokens and scores unchanged.
C12_Child ==
    pc \in {"expand", "kept", "raised"} =>
        /\ hyps = IF i = 0 THEN <<InitialHyp>> ELSE remained_hyps
        /\ \A k \in 1 .. Len(hyps_best_kept) :
              LET child == hyps_best_kept[k]
              IN \E n \in 1 .. Len(hyps) : \E c \in Tokens :
                    /\ child.yseq = Append(hyps[n].yseq, c)
                    /\ 2 * (child.score - hyps[n].score)
                         = CombinedScore2(hyps[n], c)

\* A later step with CTC and a language model: the parent has a score and a
\* CTC prefix score of its own
C12_Witness ==
    /\ pc = "kept" /\ i >= 1 /\ lpz /\ rnnlm
    /\ recog_args.ctc_weight = 1
    /\ Len(hyps_best_kept) = 2
    /\ hyps[1].score < 0 /\ hyps[1].ctc_score_prev < 0

\* C13: a hypothesis put on the ended list at step i is there with its score
\* raised by (i + 1) * penalty, plus lm_weight * the final LM score when a
\* language model is present; the entry is never changed afterwards; a
\* hypothesis that stays in the beam or is dropped keeps its score.
C13_Penalty ==
    /\ [][pc = "filter" =>
            \A k \in 1 .. Len(hyps) :
               LET h == hyps[k]
                   bonus == (i + 1) * recog_args.penalty
                            + (IF rnnlm
                               THEN recog_args.lm_weight * RnnlmFinal(h.rnnlm_prev)
                               ELSE 0)
               IN IF Last(h.yseq) = eos /\ Len(h.yseq) > minlen
                  THEN /\ [h EXCEPT !.score = @ + bonus] \in Range(ended_hyps')
                       /\ Cardinality({n \in 1 .. Len(ended_hyps') :
                                          ended_hyps'[n].yseq = h.yseq}) = 1
                  ELSE /\ hyps'[k] = h
                       /\ h.yseq \notin YSeqs(ended_hyps')
                       /\ IF Last(h.yseq) = eos
                          THEN h.yseq \notin YSeqs(remained_hyps')
                          ELSE h \in Range(remained_hyps')]_vars
    /\ [][pc # "start" =>
            \A k \in 1 .. Len(ended_hyps) : ended_hyps'[k] = ended_hyps[k]]_vars
    /\ [](pc \in {"expand", "kept"} /\ i > 0 => hyps = remained_hyps)

\* A step after the first, with a penalty and a language model, that ends one
\* hypothesis and keeps another live
C13_Witness ==
    /\ pc = "end_detect" /\ i >= 1
    /\ recog_args.penalty = 2 /\ rnnlm
    /\ Len(remained_hyps) > 0 /\ Len(ended_hyps) > 0
    /\ Last(ended_hyps).yseq \in YSeqs(hyps)

\* C14: within one run the ended list only grows at its end; a hypothesis on
\* it is neither in the beam that is expanded (nor in the live list carried to
\* the next step) nor the parent of a child; the list returned is the ended
\* list sorted by score, highest first.
C14_Ended ==
    /\ [][pc # "start" =>
            /\ Len(ended_hyps') >= Len(ended_hyps)
            /\ SubSeq(ended_hyps', 1, Len(ended_hyps)) = ended_hyps]_vars
    /\ [](pc \in {"expand", "kept", "raised"} =>
            /\ YSeqs(hyps) \cap YSeqs(ended_hyps) = {}
            /\ \A k \in 1 .. Len(hyps_best_kept) :
                  LET y == hyps_best_kept[k].yseq
                  IN SubSeq(y, 1, Len(y) - 1) \notin YSeqs(ended_hyps))
    /\ [](pc = "end_detect" => YSeqs(remained_hyps) \cap YSeqs(ended_hyps) = {})
    /\ [](pc = "done" =>
            /\ Len(nbest_hyps) = Len(ended_hyps)
            /\ Range(nbest_hyps) = Range(ended_hyps)
            /\ \A k \in 1 .. Len(nbest_hyps) - 1 :
                  nbest_hyps[k].score >= nbest_hyps[k + 1].score)

\* A list returned in an order other than the one the hypotheses ended in
C14_Witness ==
    /\ pc = "done" /\ Len(nbest_hyps) >= 3
    /\ nbest_hyps # ended_hyps
    /\ nbest_hyps[1].score > nbest_hyps[3].score

\* C15: every hypothesis of the beam, of the lists built from it in a step, of
\* the ended list and of the returned list has a non-empty token sequence
\* whose first token is sos.
C15_StartsWithSos ==
    \A y \in YSeqs(hyps) \cup YSeqs(hyps_best_kept) \cup YSeqs(remained_hyps)
              \cup YSeqs(ended_hyps) \cup YSeqs(nbest_hyps) :
        Len(y) >= 1 /\ y[1] = sos

\* A later step with ended and live hypotheses, one of which repeats sos = eos
\* inside its sequence
C15_Witness ==
    /\ pc = "end_detect" /\ i >= 2
    /\ Len(ended_hyps) > 0 /\ Len(remained_hyps) > 0
    /\ \E k \in 1 .. Len(ended_hyps) : Len(ended_hyps[k].yseq) >= 3

\* C16 as claimed: with beam_size = 1 the list returned has exactly one
\* hypothesis, and with sharply peaked scores its token sequence is that of the
\* first hypothesis returned with beam_size = 5 for the same input and
\* parameters
C16_GreedyIsTop ==
    /\ (pc = "done" /\ recog_args.beam_size = 1) => Len(nbest_hyps) = 1
    /\ (pc = "done" /\ recog_args.beam_size = 5) =>
          /\ Len(first_nbest) = 1
          /\ nbest_hyps[1].yseq = first_nbest[1].yseq

\* C16, amended: the second part holds when minlenratio = 0 and penalty = 0
\* and the run with beam_size = 5 is not stopped by end detection.
C16_GreedyIsTopIfNothingDropped ==
    /\ (pc = "done" /\ recog_args.beam_size = 1) => Len(nbest_hyps) = 1
    /\ (pc = "done" /\ recog_args.beam_size = 5) =>
          /\ Len(first_nbest) = 1
          /\ (/\ caller_args.minlenratio.tenths = 0
              /\ caller_args.penalty = 0
              /\ exit # "end_detect") =>
                 nbest_hyps[1].yseq = first_nbest[1].yseq

\* Both calls have returned, the second with several hypotheses, the first
\* with one that the decoder, not the length limit, has ended
C16_Witness ==
    /\ pc = "done" /\ recog_args.beam_size = 5
    /\ caller_args.minlenratio.tenths = 0 /\ caller_args.penalty = 0
    /\ exit # "end_detect"
    /\ Len(nbest_hyps) >= 2
    /\ Len(first_nbest[1].yseq) >= 3 /\ Len(first_nbest[1].yseq) < maxlen + 2
    /\ nbest_hyps[1].yseq = first_nbest[1].yseq

\* C17: with a ctc_weight outside [0, 1] the call fails before the first
\* search step: no hypothesis is expanded and nothing is returned.
C17_CtcWeightChecked ==
    (recog_args.ctc_weight < 0 \/ recog_args.ctc_weight > 2) =>
        /\ ~Expanded
        /\ hyps_best_kept = <<>>
        /\ pc # "done"

\* C18: recognize_beam2 raises NotImplementedError, and returns nothing, when
\* ctc_weight > 0 and when beam_size is not 1; it searches and returns an
\* N-best list only when ctc_weight <= 0 and beam_size = 1.
C18_Beam2NotImplemented ==
    /\ [][pc = "start2" =>
            IF recog_args.ctc_weight > 0 \/ recog_args.beam_size # 1
            THEN pc' = "not_implemented" /\ nbest_hyps' = <<>>
            ELSE pc' = "greedy"]_vars
    /\ [](pc = "not_implemented" => nbest_hyps = <<>>)
    /\ [][pc = "not_implemented" => UNCHANGED vars]_vars
    /\ [](pc \in {"greedy", "return2", "done2"} =>
            recog_args.ctc_weight <= 0 /\ recog_args.beam_size = 1)
    /\ [](nbest_hyps # <<>> =>
            pc = "done2" /\ recog_args.ctc_weight <= 0 /\ recog_args.beam_size = 1)

\* NotImplementedError raised for the beam size alone
C18_Witness ==
    /\ pc = "not_implemented"
    /\ recog_args.ctc_weight <= 0 /\ recog_args.beam_size = 2
    /\ nbest_hyps = <<>>

InLoop == pc \in {"expand", "kept", "filter", "end_detect", "raised"}
AllHyps == Range(hyps) \cup Range(hyps_best_kept) \cup Range(remained_hyps)
             \cup Range(ended_hyps)

RECURSIVE ChildrenOf(_)
ChildrenOf(n) ==
    IF n = 0 THEN <<>>
    ELSE LET e == Expansion(hyps[n])
         IN ChildrenOf(n - 1)
              \o [j \in 1 .. recog_args.beam_size |-> NewHyp(hyps[n], e, j)]

C22_CallerArgs ==
    /\ [][caller_args' = caller_args]_vars
    /\ [](depth = 0 => recog_args = caller_args)
    /\ []([recog_args EXCEPT !.minlenratio = caller_args.minlenratio] = caller_args)
    /\ [](depth >= 1 =>
            recog_args.minlenratio.tenths < caller_args.minlenratio.tenths
            \/ caller_args.minlenratio.tenths = 0)

\* The call has returned after two retries at least
C22_Witness ==
    /\ pc = "done" /\ depth >= 2
    /\ caller_args.minlenratio.tenths >= recog_args.minlenratio.tenths + 2
    /\ Len(nbest_hyps) > 0

\* C23: every call of recognize_beam eventually returns a non-empty N-best
\* list, for every T >= 0, beam_size >= 1, maxlenratio >= 0 and minlenratio
\* in [0, 1).
C23_AlwaysReturns == <>(pc = "done" /\ Len(nbest_hyps) > 0)


\* C24: no hypothesis of the ended list holds eos anywhere but in its last
\* place (the first place, where sos has the id of eos, excepted); so none
\* ends with two eos.
C24_EosOnlyLast ==
    \A k \in 1 .. Len(ended_hyps) :
        \A n \in 2 .. Len(ended_hyps[k].yseq) - 1 : ended_hyps[k].yseq[n] # eos


\* C25: when step i expands the beam, every hypothesis of the beam has
\* exactly i + 1 tokens, so the token yseq[i] handed to the language model
\* is its last one, and all hypotheses of the beam have the same length; the
\* children built so far in the step have one token more.
C25_BeamLength ==
    pc = "expand" =>
        /\ \A k \in 1 .. Len(hyps) :
              /\ Len(hyps[k].yseq) = i + 1
              /\ hyps[k].yseq[i + 1] = Last(hyps[k].yseq)
        /\ \A k, l \in 1 .. Len(hyps) : Len(hyps[k].yseq) = Len(hyps[l].yseq)
        /\ \A k \in 1 .. Len(hyps_best_kept) : Len(hyps_best_kept[k].yseq) = i + 2

\* a beam of two hypotheses is expanded in the third step with a language model
C25_Witness ==
    /\ pc = "expand" /\ i = 2 /\ p = 2 /\ Len(hyps) = 2 /\ rnnlm
    /\ Len(hyps[2].yseq) = 3
    /\ Len(hyps_best_kept) > 0


\* C26: with CTC, the ctc_state_prev and ctc_score_prev of a child are what
\* the prefix scorer returned for the token appended to that child, computed
\* from the parent's tokens and the parent's ctc_state_prev.  The scorer's
\* state is the label prefix it has scored, so the child holds the state and
\* the score of its own tokens after sos, and it extends the state of a
\* parent of the beam by its last token.
C26_CtcOfChild ==
    (lpz /\ pc \in {"expand", "kept"}) =>
        /\ \A k \in 1 .. Len(hyps_best_kept) :
              LET child == hyps_best_kept[k]
                  tok == Last(child.yseq)
              IN /\ child.ctc_state_prev = Tail(child.yseq)
                 /\ child.ctc_score_prev = CtcLogPsi(Tail(child.yseq))
                 /\ \E q \in 1 .. Len(hyps) :
                       LET out == CtcPrefixScore(hyps[q].yseq, <<tok>>,
                                                 hyps[q].ctc_state_prev)
                       IN /\ child.yseq = Append(hyps[q].yseq, tok)
                          /\ child.ctc_state_prev = out.states[1]
                          /\ child.ctc_score_prev = out.scores[1]
        /\ pc = "expand" =>
              \A q \in 1 .. Len(hyps) : hyps[q].ctc_state_prev = Tail(hyps[q].yseq)

\* the best child of the last parent took the second candidate of the
\* restricted list: the joint score reordered the candidates
C26_Witness ==
    /\ lpz /\ pc = "kept" /\ i >= 1 /\ Len(hyps_best_kept) = 2
    /\ Len(ctc_ids) >= 2
    /\ hyps_best_kept[1].yseq = Append(hyps[Len(hyps)].yseq, ctc_ids[2])
    /\ hyps_best_kept[1].ctc_state_prev = Tail(hyps_best_kept[1].yseq)


\* C27: the greedy search of recognize_beam2 (beam_size = 1, ctc_weight <= 0)
\* returns exactly one hypothesis; its sequence starts with sos, ends with
\* eos, has at most T + 2 tokens, and holds no token after the first eos the
\* search produced.  While the search runs, no eos has been produced yet.
C27_GreedyResult ==
    /\ pc = "greedy" =>
          /\ Len(hyps) = 1 /\ hyps[1].yseq[1] = sos
          /\ Len(hyps[1].yseq) = i + 1 /\ i < maxlen
          /\ \A n \in 2 .. Len(hyps[1].yseq) : hyps[1].yseq[n] # eos
    /\ pc = "done2" =>
          /\ recog_args.beam_size = 1 /\ recog_args.ctc_weight <= 0
          /\ Len(nbest_hyps) = 1
          /\ LET ys == nbest_hyps[1].yseq
             IN /\ Len(ys) >= 2 /\ Len(ys) <= h_len + 2
                /\ ys[1] = sos /\ Last(ys) = eos
                /\ \A n \in 2 .. Len(ys) - 1 : ys[n] # eos

\* the search stopped at an eos of its own, after other tokens and before the
\* last pass
C27_Witness ==
    /\ pc = "done2" /\ h_len >= 3
    /\ Len(nbest_hyps) = 1
    /\ Len(nbest_hyps[1].yseq) >= 3 /\ Len(nbest_hyps[1].yseq) <= h_len
    /\ Last(nbest_hyps[1].yseq) = eos


\* C28: Decoder.inference stops after L passes of its loop with
\* L <= maxlen = int(T * maxlenratio), and not before min(minlen, maxlen)
\* passes, whatever the stop probabilities are.
C28_StopsWithinMaxlen ==
    /\ pc \in {"tts_loop", "tts_done"} => idx <= maxlen
    /\ pc = "tts_done" => idx >= Min2(minlen, maxlen)


\* The keys of a batch list, batch after batch
Flatten(l) == [n \in 1 .. SumSeq([m \in 1 .. Len(l) |-> Len(l[m])]) |->
                 LET m == CHOOSE c \in 1 .. Len(l) :
                            /\ SumSeq([d \in 1 .. c - 1 |-> Len(l[d])]) < n
                            /\ n <= SumSeq([d \in 1 .. c |-> Len(l[d])])
                 IN l[m][n - SumSeq([d \in 1 .. m - 1 |-> Len(l[d])])]]

\* C29: the batch_list of a 'const' BatchSampler is a partition of the keys
\* of the shape file: every key is in exactly one batch, every batch has
\* between 1 and batch_size keys, and without shuffling the keys come in
\* descending order of length across the batches.
C29_Partition ==
    pc = "sampler_ready" =>
        LET flat == Flatten(batch_list)
        IN /\ \A k \in DOMAIN utt2shape :
                 Cardinality({n \in 1 .. Len(flat) : flat[n] = k}) = 1
           /\ \A m \in 1 .. Len(batch_list) :
                 Len(batch_list[m]) >= 1 /\ Len(batch_list[m]) <= batch_size
           /\ ~shuffle =>
                 \A a, b \in 1 .. Len(flat) :
                     a < b => utt2shape[flat[a]] >= utt2shape[flat[b]]


\* The calls that returned an array, and the first of them
Returned == {k \in 1 .. Len(calls) : calls[k].result = "array"}
FirstReturned == CHOOSE k \in Returned : \A o \in Returned : k <= o

\* C30: after any sequence of __getitem__ calls on an adapter, every call
\* that returned an array read a file whose sampling rate is the rate of the
\* first successful read, which is the recorded rate; a read of a file with
\* another rate raises RuntimeError, returns no array and leaves the
\* recorded rate as it was.
C30_RateConsistent ==
    pc = "adapter" =>
        /\ \A k \in Returned : calls[k].read = calls[FirstReturned].read
        /\ rate = IF Returned = {} THEN <<>> ELSE calls[FirstReturned].read
        /\ \A k \in 1 .. Len(calls) :
              /\ calls[k].rate_before = IF k = 1 THEN <<>> ELSE calls[k - 1].rate_after
              /\ (k = Len(calls)) => calls[k].rate_after = rate
              /\ calls[k].read = IF calls[k].key \in DOMAIN loader
                                 THEN <<loader[calls[k].key]>> ELSE <<>>
              /\ (/\ calls[k].read # <<>>
                  /\ calls[k].rate_before # <<>>
                  /\ calls[k].read # calls[k].rate_before)
                 => (/\ calls[k].result = "RuntimeError"
                     /\ calls[k].rate_after = calls[k].rate_before)
              /\ calls[k].result = "RuntimeError"
                 => (/\ calls[k].rate_after = calls[k].rate_before
                     /\ calls[k].read # calls[k].rate_before)

\* a file is returned, a file of another rate is refused, and a file of the
\* first rate is returned after that
C30_Witness ==
    /\ pc = "adapter" /\ Len(calls) = 3
    /\ calls[1].result = "array"
    /\ calls[2].result = "RuntimeError" /\ calls[2].read # calls[1].read
    /\ calls[3].result = "array" /\ calls[3].key # calls[1].key
    /\ rate = calls[1].read

====
